---- MODULE Spec2Model ----
(***************************************************************************)
(* Model of the batch import reconciliation pipeline of the consumption    *)
(* dashboard (management command `import`): import_user_data and           *)
(* import_all_consumption_data against the User and Consumption tables.    *)
(*                                                                         *)
(* Storage:                                                                *)
(*   user_table         the User table, a map from primary key (id) to     *)
(*                      the row's area and tariff;                         *)
(*   consumption_table  the Consumption table: for each (user, datetime)   *)
(*                      the values of the rows holding that pair, in       *)
(*                      insertion order (a row's identity is its pair and  *)
(*                      its position; rows are never deleted);             *)
(*   call               for each caller, the import call it is in: its     *)
(*                      position, arguments, local lists and outcome.      *)
(* The audit columns created_at / updated_at of BaseModel are left out.    *)
(***************************************************************************)
EXTENDS Integers, Sequences, FiniteSets, TLC

VARIABLES user_table, consumption_table, call

vars == <<user_table, consumption_table, call>>

(***************************************************************************)
(* Bounds of the model.                                                    *)
(***************************************************************************)
\* the longest source (rows of a CSV, all files of a directory combined)
MaxRows == 3
\* the largest batch_size argument
MaxBatch == 2
\* how often a caller runs the consumption import on one unchanged directory
MaxRuns == 2
\* the latest statement of a transaction that the storage layer may fail
MaxFailAt == 2
\* the longest source of a caller that runs beside another
MaxInterleavedRows == 1

UserIds == {1, 2}
Areas == {"a1", "a2"}
Tariffs == {"t1", "t2"}
Datetimes == {1, 2}
Procs == {1, 2}

Keys == UserIds \X Datetimes
BatchSizes == 1..MaxBatch

SeqUpTo(S, n) == UNION {[1..k -> S] : k \in 0..n}

Min(a, b) == IF a <= b THEN a ELSE b

MaxOf(S) == CHOOSE m \in S : \A k \in S : k <= m

MinOf(S) == CHOOSE m \in S : \A k \in S : m <= k

(***************************************************************************)
(* Python helpers.                                                         *)
(***************************************************************************)
\* range(start, stop, step) for step > 0, as the sequence of its values
range(start, stop, step) ==
    LET n == IF stop > start THEN (stop - start + step - 1) \div step ELSE 0
    IN  [k \in 1..n |-> start + (k - 1) * step]

\* s[i:j] for 0 <= i, 0 <= j (0-based, j exclusive, clipped to the length)
slice(s, i, j) == SubSeq(s, i + 1, Min(j, Len(s)))

(***************************************************************************)
(* The call record of a caller.                                            *)
(***************************************************************************)
NoSource == [kind |-> "none"]

IdleCall == [pc |-> "idle", op |-> "none", src |-> NoSource, batch_size |-> 0,
             runs |-> 0, fail_at |-> 0, to_create |-> <<>>, to_update |-> <<>>,
             result |-> "none"]

Init ==
    /\ user_table = <<>>
    /\ consumption_table = [k \in Keys |-> <<>>]
    /\ call = [p \in Procs |-> IdleCall]

(***************************************************************************)
(* Storage operations (Django ORM on the two models).                      *)
(***************************************************************************)
\* User.objects.in_bulk(id_list): the existing rows among the ids, by id
user_in_bulk(table, ids) == [id \in (ids \cap DOMAIN table) |-> table[id]]

\* User.objects.bulk_create(objs): one INSERT; it fails as a whole when a
\* primary key is already in the table or occurs twice in objs.
UserBulkCreateOk(table, objs) ==
    /\ \A i \in DOMAIN objs : objs[i].id \notin DOMAIN table
    /\ \A i, j \in DOMAIN objs : objs[i].id = objs[j].id => i = j

UserBulkCreate(table, objs) ==
    LET ids == {objs[i].id : i \in DOMAIN objs}
        row(id) == LET i == CHOOSE i \in DOMAIN objs : objs[i].id = id
                   IN  [area |-> objs[i].area, tariff |-> objs[i].tariff]
    IN  [id \in (DOMAIN table \cup ids) |->
            IF id \in DOMAIN table THEN table[id] ELSE row(id)]

\* User.objects.bulk_update(objs, ['area', 'tariff']): UPDATE ... CASE WHEN
\* pk = ... for each object; the first matching WHEN decides a row.
UserBulkUpdate(table, objs) ==
    [id \in DOMAIN table |->
        LET hit == {i \in DOMAIN objs : objs[i].id = id}
        IN  IF hit = {} THEN table[id]
            ELSE [area |-> objs[MinOf(hit)].area, tariff |-> objs[MinOf(hit)].tariff]]

\* existing_consumptions_of with the filter narrowed to the frame's first
\* datetime instead of all of them
existing_consumptions_first_datetime(table, user_ids, datetimes) ==
    [k \in {k \in Keys : k[1] \in user_ids /\ datetimes # {} /\ k[2] = MinOf(datetimes)
                          /\ table[k] # <<>>} |->
        [key |-> k, pos |-> Len(table[k]), consumption |-> table[k][Len(table[k])]]]

\* Consumption.objects.filter(user_id__in=user_ids, datetime__in=datetimes),
\* turned into the dict {(data.user.id, data.datetime): data}: the rows found,
\* by pair (a later row of the same pair replaces an earlier one in the dict).
existing_consumptions_of(table, user_ids, datetimes) ==
    [k \in {k \in Keys : k[1] \in user_ids /\ k[2] \in datetimes /\ table[k] # <<>>} |->
        [key |-> k, pos |-> Len(table[k]), consumption |-> table[k][Len(table[k])]]]

\* the Consumption table without its unique constraint
NoUniqueConstraint(table, objs) == TRUE

\* UniqueConstraint(fields=['user', 'datetime'], name='unique_user_datetime'):
\* whether inserting objs keeps at most one row of each pair
UniqueUserDatetime(table, objs) ==
    /\ \A i \in DOMAIN objs : table[<<objs[i].user, objs[i].datetime>>] = <<>>
    /\ \A i, j \in DOMAIN objs :
          (objs[i].user = objs[j].user /\ objs[i].datetime = objs[j].datetime) => i = j

\* Consumption.objects.bulk_create(objs): one INSERT; it fails as a whole on
\* the unique constraint or on a user that does not exist (foreign key).
ConsumptionBulkCreateOk(db, objs) ==
    /\ UniqueUserDatetime(db.consumption, objs)
    /\ \A i \in DOMAIN objs : objs[i].user \in DOMAIN db.user

RECURSIVE InsertAll(_, _, _)
InsertAll(table, objs, i) ==
    IF i > Len(objs) THEN table
    ELSE LET k == <<objs[i].user, objs[i].datetime>>
         IN  InsertAll([table EXCEPT ![k] = Append(@, objs[i].consumption)], objs, i + 1)

ConsumptionBulkCreate(table, objs) == InsertAll(table, objs, 1)

\* Consumption.objects.bulk_update(objs, ['consumption']): each object's row
\* (found by primary key) takes the object's value
ConsumptionBulkUpdate(table, objs) ==
    [k \in Keys |->
        [n \in DOMAIN table[k] |->
            LET hit == {i \in DOMAIN objs : objs[i].key = k /\ objs[i].pos = n}
            IN  IF hit = {} THEN table[k][n] ELSE objs[MinOf(hit)].consumption]]

\* a statement with no objects returns before reaching the database
ReachesStorage(stmt) == stmt.objs # <<>>

\* whether the database accepts the statement
StatementOk(db, stmt) ==
    CASE stmt.kind = "user_create" -> UserBulkCreateOk(db.user, stmt.objs)
      [] stmt.kind = "consumption_create" -> ConsumptionBulkCreateOk(db, stmt.objs)
      [] OTHER -> TRUE

\* the database after the statement
Apply(db, stmt) ==
    CASE stmt.kind = "user_create" ->
            [db EXCEPT !.user = UserBulkCreate(db.user, stmt.objs)]
      [] stmt.kind = "user_update" ->
            [db EXCEPT !.user = UserBulkUpdate(db.user, stmt.objs)]
      [] stmt.kind = "consumption_create" ->
            [db EXCEPT !.consumption = ConsumptionBulkCreate(db.consumption, stmt.objs)]
      [] stmt.kind = "consumption_update" ->
            [db EXCEPT !.consumption = ConsumptionBulkUpdate(db.consumption, stmt.objs)]

\* Statements k.. of a transaction on the working database; the storage layer
\* itself fails the fail_at-th statement that reaches it (0: it fails none).
RECURSIVE Run(_, _, _, _)
Run(stmts, k, db, fail_at) ==
    IF k > Len(stmts) THEN [result |-> "ok", db |-> db]
    ELSE IF ~ReachesStorage(stmts[k]) THEN Run(stmts, k + 1, db, fail_at)
    ELSE IF fail_at = 1 THEN [result |-> "StorageError", db |-> db]
    ELSE IF ~StatementOk(db, stmts[k]) THEN [result |-> "IntegrityError", db |-> db]
    ELSE Run(stmts, k + 1, Apply(db, stmts[k]), IF fail_at > 0 THEN fail_at - 1 ELSE 0)

\* the statements run without a transaction around them: a failure leaves
\* the batches before it in place
NotAtomic(db, stmts, fail_at) == Run(stmts, 1, db, fail_at)

\* with transaction.atomic(): every statement's effect, or none
Atomic(db, stmts, fail_at) ==
    LET run == Run(stmts, 1, db, fail_at)
    IN  IF run.result = "ok" THEN run ELSE [result |-> run.result, db |-> db]

Database == [user |-> user_table, consumption |-> consumption_table]

(***************************************************************************)
(* import_user_data                                                        *)
(***************************************************************************)
UserColumns == {"id", "area", "tariff"}

UserRows == [id : UserIds, area : Areas, tariff : Tariffs]

\* the column check looking for 'id' alone
UserColumnsOkIdOnly(src) == "id" \in src.columns

\* all(column in df.columns for column in ['id', 'area', 'tariff'])
UserColumnsOk(src) == UserColumns \subseteq src.columns

\* make_user_list_to_create_and_update: rows of unknown ids become new User
\* objects; a row of a known id mutates the object fetched for that id and
\* appends that same object, so after the loop every appended reference shows
\* the attributes of the last row with its id.
make_user_list_to_create_and_update(df, existing_users) ==
    LET known(r) == r.id \in DOMAIN existing_users
        unknown(r) == r.id \notin DOMAIN existing_users
        final(id) == df[MaxOf({i \in DOMAIN df : df[i].id = id})]
        hits == SelectSeq(df, known)
    IN  [to_create |-> SelectSeq(df, unknown),
         to_update |-> [i \in DOMAIN hits |-> final(hits[i].id)]]

\* the create loop: for i in range(0, len(users_to_create) - batch_size, batch_size)
UserCreateBatches(to_create, batch_size) ==
    LET r == range(0, Len(to_create) - batch_size, batch_size)
    IN  [k \in DOMAIN r |->
            IF Len(to_create) - r[k] >= batch_size
            THEN slice(to_create, r[k], r[k] + batch_size)
            ELSE slice(to_create, r[k], Len(to_create))]

\* the update loop: for i in range(0, len(users_to_create) - batch_size, batch_size)
UserUpdateBatches(to_create, to_update, batch_size) ==
    LET r == range(0, Len(to_create) - batch_size, batch_size)
    IN  [k \in DOMAIN r |->
            IF Len(to_update) - r[k] >= batch_size
            THEN slice(to_update, r[k], r[k] + batch_size)
            ELSE slice(to_update, r[k], Len(to_update))]

\* the statements the transaction issues, in order
UserStatements(to_create, to_update, batch_size) ==
    LET c == UserCreateBatches(to_create, batch_size)
        u == UserUpdateBatches(to_create, to_update, batch_size)
    IN  [k \in DOMAIN c |-> [kind |-> "user_create", objs |-> c[k]]]
        \o [k \in DOMAIN u |-> [kind |-> "user_update", objs |-> u[k]]]

\* import_user_data up to the transaction (read the CSV, check the columns,
\* fetch the existing users, split the rows): the call as it stands there
UserPrepare(src, batch_size, db) ==
    LET started == [IdleCall EXCEPT !.op = "user", !.src = src,
                                    !.batch_size = batch_size, !.runs = 1]
        ids == {src.rows[i].id : i \in DOMAIN src.rows}
        lists == make_user_list_to_create_and_update(src.rows, user_in_bulk(db.user, ids))
    IN  IF ~UserColumnsOk(src)
        THEN [started EXCEPT !.pc = "done", !.result = "ValueError:columns"]
        ELSE [started EXCEPT !.pc = "ready", !.to_create = lists.to_create,
                             !.to_update = lists.to_update]

(***************************************************************************)
(* load_consumption_data                                                   *)
(*                                                                         *)
(* A consumption source is the directory as pd.concat sees it:             *)
(*   files    "none" (no *.csv), "bad_stem" (a file whose stem is not an   *)
(*            integer) or "ok";                                            *)
(*   columns  the columns the files' headers give the combined frame;      *)
(*   rows     the rows in concatenation order; user_id comes from the      *)
(*            file's stem, datetime is the instant the cell parses to and  *)
(*            consumption is the cell as written.                          *)
(***************************************************************************)
ConsumptionColumns == {"datetime", "consumption"}

\* cells of the consumption column: two numbers, one of pandas' default NA
\* spellings, and a text that is no number
NumericCells == {"1.0", "2.0"}

Cells == NumericCells \cup {"N/A", "abc"}

\* the float a NaN is stood for
NaN == 0 - 1

\* pd.read_csv then astype('float64') on one cell: read_csv turns the default
\* NA spellings into NaN before any dtype is chosen; other text stays text
\* and makes astype raise.
IsFloatable(cell) == cell \in NumericCells \cup {"N/A"}

ToFloat(cell) ==
    CASE cell = "1.0" -> 1
      [] cell = "2.0" -> 2
      [] cell = "N/A" -> NaN

\* the elements of s at the indexes in idx, in order
RECURSIVE Pick(_, _, _)
Pick(s, idx, i) ==
    IF i > Len(s) THEN <<>>
    ELSE (IF i \in idx THEN <<s[i]>> ELSE <<>>) \o Pick(s, idx, i + 1)

\* drop_duplicates with keep='first'
drop_duplicates_keep_first(rows) ==
    LET same(i, j) == rows[i].user_id = rows[j].user_id
                      /\ rows[i].datetime = rows[j].datetime
        kept == {i \in DOMAIN rows : \A j \in DOMAIN rows : j < i => ~same(i, j)}
    IN  Pick(rows, kept, 1)

\* df.drop_duplicates(subset=['user_id', 'datetime'], keep='last')
drop_duplicates(rows) ==
    LET same(i, j) == rows[i].user_id = rows[j].user_id
                      /\ rows[i].datetime = rows[j].datetime
        kept == {i \in DOMAIN rows : \A j \in DOMAIN rows : j > i => ~same(i, j)}
    IN  Pick(rows, kept, 1)

\* load_consumption_data: [result, df]
load_consumption_data(src) ==
    IF src.files = "none" THEN [result |-> "Exception:no files", df |-> <<>>]
    ELSE IF src.files = "bad_stem" THEN [result |-> "ValueError:filename", df |-> <<>>]
    ELSE IF ~(ConsumptionColumns \subseteq src.columns)
    THEN [result |-> "ValueError:columns", df |-> <<>>]
    ELSE LET d == drop_duplicates(src.rows)
         IN  IF \E i \in DOMAIN d : ~IsFloatable(d[i].consumption)
             THEN [result |-> "ValueError:consumption", df |-> <<>>]
             ELSE [result |-> "ok",
                   df |-> [i \in DOMAIN d |->
                            [user_id |-> d[i].user_id, datetime |-> d[i].datetime,
                             consumption |-> ToFloat(d[i].consumption)]]]

(***************************************************************************)
(* import_all_consumption_data                                             *)
(***************************************************************************)
\* MissingUsers with the check left out (rows of unknown users are skipped
\* over instead of failing the call)
MissingUsersUnchecked(user_ids, existing_users) == {}

\* the referenced users that are not in the User table:
\* for user_id in user_ids: if int(user_id) not in existing_users
MissingUsers(user_ids, existing_users) ==
    {u \in user_ids : u \notin DOMAIN existing_users}

\* make_consumption_data_list_to_create_and_update
make_consumption_data_list_to_create_and_update(combined_df, existing_consumptions) ==
    LET key(r) == <<r.user_id, r.datetime>>
        known(r) == key(r) \in DOMAIN existing_consumptions
        unknown(r) == key(r) \notin DOMAIN existing_consumptions
        news == SelectSeq(combined_df, unknown)
        hits == SelectSeq(combined_df, known)
    IN  [to_create |-> [i \in DOMAIN news |->
                          [user |-> news[i].user_id, datetime |-> news[i].datetime,
                           consumption |-> news[i].consumption]],
         to_update |-> [i \in DOMAIN hits |->
                          [existing_consumptions[key(hits[i])]
                              EXCEPT !.consumption = hits[i].consumption]]]

\* ConsumptionBatches with the loop bound of import_user_data:
\* for i in range(0, len(objs) - batch_size, batch_size)
ConsumptionBatchesShortRange(objs, batch_size) ==
    LET r == range(0, Len(objs) - batch_size, batch_size)
    IN  [k \in DOMAIN r |->
            IF Len(objs) - r[k] >= batch_size
            THEN slice(objs, r[k], r[k] + batch_size)
            ELSE slice(objs, r[k], Len(objs))]

\* either loop of the transaction: for i in range(0, len(objs), batch_size)
ConsumptionBatches(objs, batch_size) ==
    LET r == range(0, Len(objs), batch_size)
    IN  [k \in DOMAIN r |->
            IF Len(objs) - r[k] >= batch_size
            THEN slice(objs, r[k], r[k] + batch_size)
            ELSE slice(objs, r[k], Len(objs))]

\* the statements the transaction issues, in order
ConsumptionStatements(to_create, to_update, batch_size) ==
    LET c == ConsumptionBatches(to_create, batch_size)
        u == ConsumptionBatches(to_update, batch_size)
    IN  [k \in DOMAIN c |-> [kind |-> "consumption_create", objs |-> c[k]]]
        \o [k \in DOMAIN u |-> [kind |-> "consumption_update", objs |-> u[k]]]

\* import_all_consumption_data up to the transaction (load the directory,
\* check that every user exists, fetch the existing rows, split): the call as
\* it stands there
ConsumptionPrepare(src, batch_size, db) ==
    LET started == [IdleCall EXCEPT !.op = "consumption", !.src = src,
                                    !.batch_size = batch_size, !.runs = 1]
        loaded == load_consumption_data(src)
        df == loaded.df
        user_ids == {df[i].user_id : i \in DOMAIN df}
        datetimes == {df[i].datetime : i \in DOMAIN df}
        existing_users == user_in_bulk(db.user, user_ids)
        lists == make_consumption_data_list_to_create_and_update(
                     df, existing_consumptions_of(db.consumption, user_ids, datetimes))
    IN  IF loaded.result # "ok"
        THEN [started EXCEPT !.pc = "done", !.result = loaded.result]
        ELSE IF MissingUsers(user_ids, existing_users) # {}
        THEN [started EXCEPT !.pc = "done", !.result = "ValueError:user not found"]
        ELSE [started EXCEPT !.pc = "ready", !.to_create = lists.to_create,
                             !.to_update = lists.to_update]

(***************************************************************************)
(* The calls as actions.                                                   *)
(***************************************************************************)
\* the statements of the transaction of a call that reached it
Statements(c) ==
    IF c.op = "user" THEN UserStatements(c.to_create, c.to_update, c.batch_size)
    ELSE ConsumptionStatements(c.to_create, c.to_update, c.batch_size)

\* the transaction of call c on db, the storage layer failing as fail_at says:
\* the call and the database after it
Commit(c, db, fail_at) ==
    LET run == Atomic(db, Statements(c), fail_at)
    IN  [call |-> [c EXCEPT !.pc = "done", !.fail_at = fail_at, !.result = run.result],
         db |-> run.db]

\* a call that ended before its transaction leaves the database as it is
Finish(c, db, fail_at) ==
    IF c.pc = "ready" THEN Commit(c, db, fail_at) ELSE [call |-> c, db |-> db]

\* caller p runs import_user_data(src, batch_size) from start to end
import_user_data(p, sources, sizes, fails) ==
    /\ call[p].pc = "idle"
    /\ \E src \in sources, b \in sizes, f \in fails :
        \E end \in {Finish(UserPrepare(src, b, Database), Database, f)} :
            /\ f = end.call.fail_at
            /\ call' = [call EXCEPT ![p] = end.call]
            /\ user_table' = end.db.user
            /\ consumption_table' = end.db.consumption

\* caller p runs import_all_consumption_data(src, batch_size) from start to end
import_all_consumption_data(p, sources, sizes, fails) ==
    /\ call[p].pc = "idle"
    /\ \E src \in sources, b \in sizes, f \in fails :
        \E end \in {Finish(ConsumptionPrepare(src, b, Database), Database, f)} :
            /\ f = end.call.fail_at
            /\ call' = [call EXCEPT ![p] = end.call]
            /\ user_table' = end.db.user
            /\ consumption_table' = end.db.consumption

\* caller p, whose consumption import has ended, runs it once more on the
\* same directory with the same batch size
import_all_consumption_data_again(p, fails) ==
    /\ call[p].pc = "done"
    /\ call[p].op = "consumption"
    /\ call[p].runs < MaxRuns
    /\ \E f \in fails :
        \E end \in {Finish(ConsumptionPrepare(call[p].src, call[p].batch_size, Database),
                          Database, f)} :
            /\ f = end.call.fail_at
            /\ call' = [call EXCEPT ![p] = [end.call EXCEPT !.runs = call[p].runs + 1]]
            /\ user_table' = end.db.user
            /\ consumption_table' = end.db.consumption

\* the same calls in two steps, for callers that run side by side: first the
\* part before `with transaction.atomic()`, which only reads ...
UserBegin(p, sources, sizes) ==
    /\ call[p].pc = "idle"
    /\ \E src \in sources, b \in sizes :
        call' = [call EXCEPT ![p] = UserPrepare(src, b, Database)]
    /\ UNCHANGED <<user_table, consumption_table>>

ConsumptionBegin(p, sources, sizes) ==
    /\ call[p].pc = "idle"
    /\ \E src \in sources, b \in sizes :
        call' = [call EXCEPT ![p] = ConsumptionPrepare(src, b, Database)]
    /\ UNCHANGED <<user_table, consumption_table>>

\* ... then the transaction, on the database as it is by then
Transaction(p, fails) ==
    /\ call[p].pc = "ready"
    /\ \E f \in fails :
        \E end \in {Commit(call[p], Database, f)} :
            /\ call' = [call EXCEPT ![p] = end.call]
            /\ user_table' = end.db.user
            /\ consumption_table' = end.db.consumption

\* the call returns (or raises) to its caller
Return(p) ==
    /\ call[p].pc = "done"
    /\ call' = [call EXCEPT ![p] = IdleCall]
    /\ UNCHANGED <<user_table, consumption_table>>

(***************************************************************************)
(* User sources and the user pipeline on its own.                          *)
(***************************************************************************)
GoodUserSources == [columns : {UserColumns}, rows : SeqUpTo(UserRows, MaxRows)]

\* a header without one or more of the required columns
BadUserSources ==
    [columns : (SUBSET UserColumns) \ {UserColumns}, rows : SeqUpTo(UserRows, 1)]

UserSources == GoodUserSources \cup BadUserSources

UserImport == import_user_data(1, UserSources, BatchSizes, {0})

UserImportReturn == Return(1)

NextUser == UserImport \/ UserImportReturn

SpecUser == Init /\ [][NextUser]_vars

(***************************************************************************)
(* Consumption sources and the consumption pipeline on its own, started    *)
(* from a database that holds users and no reading.                        *)
(***************************************************************************)
ConsumptionRows(cells) == [user_id : UserIds, datetime : Datetimes, consumption : cells]

GoodConsumptionSources(cells, n) ==
    [files : {"ok"}, columns : {ConsumptionColumns}, rows : SeqUpTo(ConsumptionRows(cells), n)]

\* an empty directory, a file named like "abc.csv", a header short of a column
BadConsumptionSources ==
    [files : {"none"}, columns : {{}}, rows : {<<>>}]
    \cup [files : {"bad_stem"}, columns : {ConsumptionColumns},
          rows : SeqUpTo(ConsumptionRows({"1.0"}), 1)]
    \cup [files : {"ok"}, columns : (SUBSET ConsumptionColumns) \ {ConsumptionColumns},
          rows : SeqUpTo(ConsumptionRows({"1.0"}), 1)]

\* the users a test's setUp creates with User.objects.create: user 1 alone,
\* or users 1 and 2
UserFixtures ==
    {(1 :> [area |-> "a1", tariff |-> "t1"]),
     (1 :> [area |-> "a1", tariff |-> "t1"]) @@ (2 :> [area |-> "a2", tariff |-> "t3"])}

InitConsumption ==
    /\ user_table \in UserFixtures
    /\ consumption_table = [k \in Keys |-> <<>>]
    /\ call = [p \in Procs |-> IdleCall]

ConsumptionSources == GoodConsumptionSources(NumericCells, MaxRows) \cup BadConsumptionSources

ConsumptionImport == import_all_consumption_data(1, ConsumptionSources, BatchSizes, {0})

ConsumptionImportAgain == import_all_consumption_data_again(1, {0})

ConsumptionImportReturn == Return(1)

NextConsumption == ConsumptionImport \/ ConsumptionImportAgain \/ ConsumptionImportReturn

SpecConsumption == InitConsumption /\ [][NextConsumption]_vars

(***************************************************************************)
(* The consumption pipeline on sources whose cells need not be numbers.    *)
(***************************************************************************)
ValidationCells == {"1.0", "N/A", "abc"}

ValidationSources == GoodConsumptionSources(ValidationCells, MaxRows)

ValidationImport == import_all_consumption_data(1, ValidationSources, BatchSizes, {0})

ValidationReturn == Return(1)

NextValidation == ValidationImport \/ ValidationReturn

SpecValidation == InitConsumption /\ [][NextValidation]_vars

(***************************************************************************)
(* The management command's two imports, called one after the other in any *)
(* order on an initially empty database, with a storage layer that may     *)
(* fail a statement (connectivity loss).                                   *)
(***************************************************************************)
\* the statement of a transaction the storage layer fails (0: none)
FailPoints == 0..MaxFailAt

SmallUserRows == [id : UserIds, area : Areas, tariff : {"t1"}]

SmallUserSources ==
    [columns : {UserColumns}, rows : SeqUpTo(SmallUserRows, MaxRows)]
    \cup [columns : (SUBSET UserColumns) \ {UserColumns}, rows : SeqUpTo(SmallUserRows, 1)]

SmallConsumptionRows == [user_id : UserIds, datetime : {1}, consumption : NumericCells]

SmallConsumptionSources ==
    [files : {"ok"}, columns : {ConsumptionColumns},
     rows : SeqUpTo(SmallConsumptionRows, MaxRows)]
    \cup BadConsumptionSources

CommandImportUser == import_user_data(1, SmallUserSources, BatchSizes, FailPoints)

CommandImportConsumption ==
    import_all_consumption_data(1, SmallConsumptionSources, BatchSizes, FailPoints)

CommandReturn == Return(1)

Next == CommandImportUser \/ CommandImportConsumption \/ CommandReturn

Spec == Init /\ [][Next]_vars

(***************************************************************************)
(* Two callers running imports side by side: each call reads, then runs    *)
(* its transaction, and the other caller may act in between.               *)
(***************************************************************************)
InterleavedUserSources ==
    [columns : {UserColumns}, rows : SeqUpTo(SmallUserRows, MaxInterleavedRows)]

InterleavedConsumptionSources ==
    [files : {"ok"}, columns : {ConsumptionColumns},
     rows : SeqUpTo(ConsumptionRows({"1.0"}), MaxInterleavedRows)]

InterleavedUserBegin == \E p \in Procs : UserBegin(p, InterleavedUserSources, {1})

InterleavedConsumptionBegin ==
    \E p \in Procs : ConsumptionBegin(p, InterleavedConsumptionSources, {1})

InterleavedTransaction == \E p \in Procs : Transaction(p, {0})

InterleavedReturn == \E p \in Procs : Return(p)

NextInterleaved ==
    \/ InterleavedUserBegin
    \/ InterleavedConsumptionBegin
    \/ InterleavedTransaction
    \/ InterleavedReturn

SpecInterleaved == InitConsumption /\ [][NextInterleaved]_vars

(***************************************************************************)
(* Claims about import_user_data, checked under SpecUser.                  *)
(***************************************************************************)
\* a call of `op` that has returned without raising
Returned(c, op) == c.pc = "done" /\ c.op = op /\ c.result = "ok"

\* the User row a source row or User object stands for
UserRowOf(r) == [area |-> r.area, tariff |-> r.tariff]

\* C1: whatever the batch size, when import_user_data returns successfully on
\* a source whose ids were all absent from the User table, every source row's
\* user is in the table with that row's area and tariff.
C1_EveryNewUserStored ==
    \A p \in Procs :
        (Returned(call[p], "user") /\ call[p].to_update = <<>>) =>
            \A i \in DOMAIN call[p].src.rows :
                LET r == call[p].src.rows[i]
                IN  r.id \in DOMAIN user_table /\ user_table[r.id] = UserRowOf(r)

\* C2: when import_user_data returns successfully, every object queued in
\* users_to_update has had its area and tariff written to the User table,
\* however many users were queued for creation.
C2_EveryUpdateStored ==
    \A p \in Procs :
        Returned(call[p], "user") =>
            \A i \in DOMAIN call[p].to_update :
                LET u == call[p].to_update[i]
                IN  u.id \in DOMAIN user_table /\ user_table[u.id] = UserRowOf(u)

(***************************************************************************)
(* Claims about import_all_consumption_data, checked under SpecConsumption.*)
(***************************************************************************)
\* the working set of a consumption call: what load_consumption_data returns
WorkingSet(c) == load_consumption_data(c.src).df

KeyOf(r) == <<r.user_id, r.datetime>>

\* the consumption call of caller p ran from start to end in this step
ConsumptionCallRan(p) ==
    /\ call'[p].op = "consumption"
    /\ call'[p].pc = "done"
    /\ call'[p] # call[p]

\* C3: when import_all_consumption_data returns successfully, the table holds,
\* for every (user_id, datetime) of the deduplicated working set, exactly one
\* reading, and its value is the working set's value (created if the pair was
\* absent, overwritten if it was present), whatever the batch size.
C3_WorkingSetStored ==
    \A p \in Procs :
        Returned(call[p], "consumption") =>
            \A i \in DOMAIN WorkingSet(call[p]) :
                LET r == WorkingSet(call[p])[i]
                IN  consumption_table[KeyOf(r)] = <<r.consumption>>

\* a returned call with batch size 2 that created three readings (a full
\* batch and a shorter last one)
C3_Witness ==
    /\ Returned(call[1], "consumption")
    /\ call[1].batch_size = 2
    /\ Len(call[1].to_create) = 3

\* C4: running import_all_consumption_data again on the unchanged source
\* after a successful run succeeds, leaves the Consumption table as the first
\* run left it, classifies every working row as an update and none as a
\* create, and leaves no pair with two readings.
C4_SecondRunIdempotent ==
    [][\A p \in Procs :
          (Returned(call[p], "consumption") /\ ConsumptionCallRan(p)
             /\ call'[p].runs = call[p].runs + 1) =>
              /\ call'[p].result = "ok"
              /\ consumption_table' = consumption_table
              /\ call'[p].to_create = <<>>
              /\ Len(call'[p].to_update) = Len(WorkingSet(call[p]))
              /\ \A k \in Keys : Len(consumption_table'[k]) <= 1]_vars

\* a second run over three readings in batches of two
C4_Witness ==
    /\ Returned(call[1], "consumption")
    /\ call[1].runs = 2
    /\ call[1].batch_size = 2
    /\ Len(call[1].to_update) = 3

\* C5: a consumption import whose working set references a user that is not
\* in the User table ends with the user-not-found error and leaves both
\* tables as they were, the rows of existing users included.
C5_MissingUserFailsBeforeWrite ==
    [][\A p \in Procs :
          (ConsumptionCallRan(p)
             /\ \E i \in DOMAIN WorkingSet(call'[p]) :
                   WorkingSet(call'[p])[i].user_id \notin DOMAIN user_table) =>
              /\ call'[p].result = "ValueError:user not found"
              /\ consumption_table' = consumption_table
              /\ user_table' = user_table]_vars

\* a failed call whose working set held rows of an existing user and of a
\* missing one, on a table that already held a reading
C5_Witness ==
    /\ call[1].op = "consumption"
    /\ call[1].result = "ValueError:user not found"
    /\ \E i, j \in DOMAIN WorkingSet(call[1]) :
          /\ WorkingSet(call[1])[i].user_id \in DOMAIN user_table
          /\ WorkingSet(call[1])[j].user_id \notin DOMAIN user_table
    /\ \E k \in Keys : consumption_table[k] # <<>>

\* the index of the last source row with the pair of row i
LastWithKeyOf(rows, i) == MaxOf({j \in DOMAIN rows : KeyOf(rows[j]) = KeyOf(rows[i])})

\* C6: of the source rows sharing a (user_id, datetime) pair exactly one is in
\* the working set, carrying the cell of the last of them in concatenation
\* order; after a successful import the stored reading of the pair has that
\* value.
C6_LastDuplicateWins ==
    \A p \in Procs :
        (call[p].op = "consumption" /\ load_consumption_data(call[p].src).result = "ok") =>
            LET rows == call[p].src.rows
                df == WorkingSet(call[p])
            IN  \A i \in DOMAIN rows :
                    LET last == rows[LastWithKeyOf(rows, i)]
                        kept == {n \in DOMAIN df : KeyOf(df[n]) = KeyOf(rows[i])}
                    IN  /\ Cardinality(kept) = 1
                        /\ \A n \in kept : df[n].consumption = ToFloat(last.consumption)
                        /\ Returned(call[p], "consumption") =>
                              consumption_table[KeyOf(rows[i])] = <<ToFloat(last.consumption)>>

\* a returned call whose source repeated a pair with another value
C6_Witness ==
    /\ Returned(call[1], "consumption")
    /\ \E i, j \in DOMAIN call[1].src.rows :
          /\ i < j
          /\ KeyOf(call[1].src.rows[i]) = KeyOf(call[1].src.rows[j])
          /\ call[1].src.rows[i].consumption # call[1].src.rows[j].consumption

(***************************************************************************)
(* Claim about non-numeric cells, checked under SpecValidation.            *)
(***************************************************************************)
\* C7: a consumption import whose source has a row with the cell "N/A" (its
\* users all existing) fails with the validation error and leaves the
\* Consumption table as it was.
C7_NotAvailableCellFailsImport ==
    [][\A p \in Procs :
          (ConsumptionCallRan(p)
             /\ (\E i \in DOMAIN call'[p].src.rows : call'[p].src.rows[i].consumption = "N/A")
             /\ \A i \in DOMAIN call'[p].src.rows :
                   call'[p].src.rows[i].user_id \in DOMAIN user_table) =>
              /\ call'[p].result = "ValueError:consumption"
              /\ consumption_table' = consumption_table]_vars

(***************************************************************************)
(* Claims about both pipelines, checked under Spec.                        *)
(***************************************************************************)
\* a call of caller p ran from start to end in this step
CallRan(p) == call'[p].pc = "done" /\ call'[p] # call[p]

TablesUnchanged == user_table' = user_table /\ consumption_table' = consumption_table

\* C8: a user import whose source lacks one of the columns id, area, tariff,
\* and a consumption import with a file whose stem is not an integer or whose
\* combined frame lacks datetime or consumption, end in the schema error and
\* leave the User and Consumption tables as they were.
C8_SchemaFailureLeavesStorage ==
    [][\A p \in Procs :
          /\ (CallRan(p) /\ call'[p].op = "user" /\ ~(UserColumns \subseteq call'[p].src.columns)) =>
                (call'[p].result = "ValueError:columns" /\ TablesUnchanged)
          /\ (CallRan(p) /\ call'[p].op = "consumption" /\ call'[p].src.files = "bad_stem") =>
                (call'[p].result = "ValueError:filename" /\ TablesUnchanged)
          /\ (CallRan(p) /\ call'[p].op = "consumption" /\ call'[p].src.files = "ok"
                /\ ~(ConsumptionColumns \subseteq call'[p].src.columns)) =>
                (call'[p].result = "ValueError:columns" /\ TablesUnchanged)]_vars

\* a user import that failed on its columns, its source holding a row, with
\* users and readings in storage
C8_Witness ==
    /\ call[1].op = "user"
    /\ call[1].result = "ValueError:columns"
    /\ call[1].src.rows # <<>>
    /\ user_table # <<>>
    /\ \E k \in Keys : consumption_table[k] # <<>>

StorageFailures == {"IntegrityError", "StorageError"}

\* C9: an import call in which a create or update batch fails at the storage
\* layer ends with that error (no retry) and leaves the User and Consumption
\* tables as they were before the call, the batches applied before the
\* failing one included.
C9_BatchFailureRollsBack ==
    [][\A p \in Procs :
          /\ (CallRan(p) /\ call'[p].result \in StorageFailures) => TablesUnchanged
          /\ (CallRan(p) /\ call'[p].fail_at > 0
                /\ call'[p].fail_at <= Len(SelectSeq(Statements(call'[p]), ReachesStorage))) =>
                call'[p].result \in StorageFailures]_vars

\* a user import in batches of one whose second batch repeats the primary key
\* the first batch inserted
C9_Witness ==
    /\ call[1].op = "user"
    /\ call[1].result = "IntegrityError"
    /\ call[1].batch_size = 1
    /\ Len(call[1].to_create) = 3
    /\ call[1].to_create[1].id = call[1].to_create[2].id

(***************************************************************************)
(* Claim about the Consumption table, checked under SpecInterleaved.       *)
(***************************************************************************)
\* C10: in every reachable state the Consumption table holds at most one
\* reading per (user, datetime) pair.
C10_OneReadingPerPair == \A k \in Keys : Len(consumption_table[k]) <= 1

\* both callers had queued the same new pair; one has inserted it and the
\* other's insert was refused
C10_Witness ==
    /\ call[1].op = "consumption"
    /\ call[2].op = "consumption"
    /\ call[1].result = "ok"
    /\ call[2].result = "IntegrityError"
    /\ \E i \in DOMAIN call[1].to_create : \E j \in DOMAIN call[2].to_create :
          /\ call[1].to_create[i].user = call[2].to_create[j].user
          /\ call[1].to_create[i].datetime = call[2].to_create[j].datetime

(***************************************************************************)
(* The aggregation queries of chart/statistics.py.                         *)
(*                                                                         *)
(* A datetime is the number of a reading slot, counted from 1; a calendar  *)
(* date holds SlotsPerDay slots.  Reading values are multiples of ten, so  *)
(* that the interpolation of a 10th, 50th or 90th percentile between two   *)
(* sums of readings is a whole number.                                     *)
(***************************************************************************)
\* the reading slots of one calendar date
SlotsPerDay == 2
\* the most readings in the Consumption table of a generated input
MaxReadings == 4

StatUserIds == 1..4
StatDatetimes == 1..(SlotsPerDay + 1)
StatKeys == StatUserIds \X StatDatetimes
StatValues == {10, 20}

\* TruncDate('datetime') / DATE_TRUNC('day', datetime)
TruncDate(datetime) == (datetime + SlotsPerDay - 1) \div SlotsPerDay

\* ascending order of a set of integers (ORDER BY date)
RECURSIVE Ascending(_)
Ascending(S) == IF S = {} THEN <<>> ELSE <<MinOf(S)>> \o Ascending(S \ {MinOf(S)})

RECURSIVE SumSeq(_)
SumSeq(s) == IF s = <<>> THEN 0 ELSE Head(s) + SumSeq(Tail(s))

\* SUM(consumption) over the rows of the table whose pair is in ks
RECURSIVE Sum(_, _)
Sum(table, ks) ==
    IF ks = {} THEN 0
    ELSE LET k == CHOOSE k \in ks : TRUE
         IN  SumSeq(table[k]) + Sum(table, ks \ {k})

\* the pairs that have a row in the Consumption table
ConsumptionObjects(table) == {k \in DOMAIN table : table[k] # <<>>}

\* get_daily_total_consumptions_for_all with the grouping by date left out:
\* one row per reading
get_daily_total_consumptions_for_all_ungrouped(db) ==
    LET objs == ConsumptionObjects(db.consumption)
        keys == Ascending({k[2] * 10 + k[1] : k \in objs})
    IN  [i \in DOMAIN keys |->
            LET k == CHOOSE k \in objs : k[2] * 10 + k[1] = keys[i]
            IN  [date |-> TruncDate(k[2]), daily_total |-> SumSeq(db.consumption[k])]]

\* annotate(date=TruncDate('datetime')).values('date')
\*     .annotate(daily_total=Sum('consumption')).order_by('date')
get_daily_total_consumptions_for_all(db) ==
    LET objs == ConsumptionObjects(db.consumption)
        dates == Ascending({TruncDate(k[2]) : k \in objs})
    IN  [i \in DOMAIN dates |->
            [date |-> dates[i],
             daily_total |-> Sum(db.consumption, {k \in objs : TruncDate(k[2]) = dates[i]})]]

\* the CTE without its first stage: one row per reading, not per user and date
raw_readings(table) ==
    {[user_id |-> k[1], date |-> TruncDate(k[2]), datetime |-> k[2],
      daily_total |-> SumSeq(table[k])] : k \in ConsumptionObjects(table)}

\* WITH daily_totals AS (SELECT user_id, DATE_TRUNC('day', datetime) AS date,
\*     SUM(consumption) AS daily_total FROM ... GROUP BY user_id, date)
daily_totals(table) ==
    LET objs == ConsumptionObjects(table)
    IN  {[user_id |-> g[1], date |-> g[2],
          daily_total |-> Sum(table, {k \in objs : k[1] = g[1] /\ TruncDate(k[2]) = g[2]})] :
            g \in {<<k[1], TruncDate(k[2])>> : k \in objs}}

\* the daily_total column of a set of rows, ascending (ORDER BY daily_total)
RECURSIVE OrderByDailyTotal(_)
OrderByDailyTotal(rows) ==
    IF rows = {} THEN <<>>
    ELSE LET r == CHOOSE r \in rows : \A q \in rows : r.daily_total <= q.daily_total
         IN  <<r.daily_total>> \o OrderByDailyTotal(rows \ {r})

\* PERCENTILE_CONT(percent / 100) over an ordered, non-empty column v: the
\* value at the 0-based rank percent / 100 * (n - 1), interpolated linearly
\* between the two neighbours of the rank
PERCENTILE_CONT(percent, v) ==
    LET rank100 == percent * (Len(v) - 1)
        lo == rank100 \div 100
        frac100 == rank100 % 100
        hi == IF frac100 = 0 THEN lo ELSE lo + 1
    IN  v[lo + 1] + (frac100 * (v[hi + 1] - v[lo + 1])) \div 100

\* the percentiles of a group with the column ordered descending
PercentilesOfDesc(rows) ==
    LET asc == OrderByDailyTotal(rows)
        v == [i \in DOMAIN asc |-> asc[Len(asc) + 1 - i]]
    IN  [p10 |-> PERCENTILE_CONT(10, v), p50 |-> PERCENTILE_CONT(50, v),
         p90 |-> PERCENTILE_CONT(90, v)]

\* PERCENTILE_CONT(0.1 / 0.5 / 0.9) WITHIN GROUP (ORDER BY daily_total)
PercentilesOf(rows) ==
    LET v == OrderByDailyTotal(rows)
    IN  [p10 |-> PERCENTILE_CONT(10, v), p50 |-> PERCENTILE_CONT(50, v),
         p90 |-> PERCENTILE_CONT(90, v)]

\* SELECT date, PERCENTILE_CONT(..) .. FROM <totals> GROUP BY date ORDER BY date
PercentilesByDate(totals) ==
    LET dates == Ascending({t.date : t \in totals})
    IN  [i \in DOMAIN dates |->
            LET p == PercentilesOf({t \in totals : t.date = dates[i]})
            IN  [date |-> dates[i], p10 |-> p.p10, p50 |-> p.p50, p90 |-> p.p90]]

get_daily_percentiles_for_all(db) == PercentilesByDate(daily_totals(db.consumption))

\* the area names in ascending order of the database collation
AreaCollation == <<"a1", "a2">>

\* the rows of one area, by date: the sum of every user's readings of the date
\* (the join to the user's area left out of the sum)
AreaRowsUnjoined(db, area) ==
    LET objs == ConsumptionObjects(db.consumption)
        dates == Ascending({TruncDate(k[2]) : k \in {k \in objs : db.user[k[1]].area = area}})
    IN  [i \in DOMAIN dates |->
            [area |-> area, date |-> dates[i],
             daily_total |-> Sum(db.consumption, {k \in objs : TruncDate(k[2]) = dates[i]})]]

\* the rows of one area, by date: values('user__area', 'date')
\*     .annotate(daily_total=Sum('consumption'))
AreaRows(db, area) ==
    LET objs == {k \in ConsumptionObjects(db.consumption) : db.user[k[1]].area = area}
        dates == Ascending({TruncDate(k[2]) : k \in objs})
    IN  [i \in DOMAIN dates |->
            [area |-> area, date |-> dates[i],
             daily_total |-> Sum(db.consumption, {k \in objs : TruncDate(k[2]) = dates[i]})]]

\* .order_by('user__area', 'date'): area by area in collation order
RECURSIVE OrderByAreaDate(_, _)
OrderByAreaDate(db, areas) ==
    IF areas = <<>> THEN <<>>
    ELSE AreaRows(db, Head(areas)) \o OrderByAreaDate(db, Tail(areas))

get_area_daily_total_consumptions(db) == OrderByAreaDate(db, AreaCollation)

\* Consumption.objects.filter(user_id=user_id).annotate(date=TruncDate(..))
\*     .values('date').annotate(daily_total=Sum('consumption')).order_by('date')
get_user_daily_total_consumptions(db, user_id) ==
    LET objs == {k \in ConsumptionObjects(db.consumption) : k[1] = user_id}
        dates == Ascending({TruncDate(k[2]) : k \in objs})
    IN  [i \in DOMAIN dates |->
            [date |-> dates[i],
             daily_total |-> Sum(db.consumption, {k \in objs : TruncDate(k[2]) = dates[i]})]]

(***************************************************************************)
(* The aggregation queries as steps of a caller.  A query reads the tables *)
(* and hands its rows to the caller; pd.DataFrame(rows) keeps the rows and *)
(* their order.                                                            *)
(***************************************************************************)
QueryCall(op, args, rows) ==
    [pc |-> "done", op |-> op, src |-> args, batch_size |-> 0, runs |-> 0,
     fail_at |-> 0, to_create |-> <<>>, to_update |-> <<>>, result |-> "ok",
     rows |-> rows]

Query(p, op, args, rows) ==
    /\ call[p].pc = "idle"
    /\ call' = [call EXCEPT ![p] = QueryCall(op, args, rows)]
    /\ UNCHANGED <<user_table, consumption_table>>

DailyTotalConsumptionsForAll(p) ==
    Query(p, "get_daily_total_consumptions_for_all", NoSource,
          get_daily_total_consumptions_for_all(Database))

DailyPercentilesForAll(p) ==
    Query(p, "get_daily_percentiles_for_all", NoSource,
          get_daily_percentiles_for_all(Database))

AreaDailyTotalConsumptions(p) ==
    Query(p, "get_area_daily_total_consumptions", NoSource,
          get_area_daily_total_consumptions(Database))

UserDailyTotalConsumptions(p, user_ids) ==
    \E user_id \in user_ids :
        Query(p, "get_user_daily_total_consumptions", [user_id |-> user_id],
              get_user_daily_total_consumptions(Database, user_id))

(***************************************************************************)
(* SpecStatistics: the aggregation queries over a populated database.      *)
(***************************************************************************)
\* the users of StatisticsTests.setUp
StatUsers ==
    (1 :> [area |-> "a1", tariff |-> "t1"]) @@ (2 :> [area |-> "a2", tariff |-> "t3"])
        @@ (3 :> [area |-> "a1", tariff |-> "t1"]) @@ (4 :> [area |-> "a2", tariff |-> "t3"])

\* a Consumption table with one row for each pair of ks, valued by vals
TableOf(ks, vals) == [k \in StatKeys |-> IF k \in ks THEN <<vals[k]>> ELSE <<>>]

\* the sets of at most MaxReadings pairs
ReadingSets == {ks \in SUBSET StatKeys : Cardinality(ks) <= MaxReadings}

\* one reading per user in the first slot, user i's being 10 * i, as the
\* values of StatisticsTests.setUp at half_hour 0; the first n users only
FixtureTables ==
    {TableOf({<<u, 1>> : u \in 1..n}, [k \in {<<u, 1>> : u \in 1..n} |-> 10 * k[1]]) :
        n \in StatUserIds}

\* the ids asked for: users with and without readings, and no user's id
QueryUserIds == {1, 2, 5}

InitStatistics ==
    /\ user_table = StatUsers
    /\ \/ \E ks \in ReadingSets : \E vals \in [ks -> StatValues] :
              consumption_table = TableOf(ks, vals)
       \/ consumption_table \in FixtureTables
    /\ call = [p \in Procs |-> IdleCall]

StatisticsDailyTotal == DailyTotalConsumptionsForAll(1)

StatisticsDailyPercentiles == DailyPercentilesForAll(1)

StatisticsAreaDailyTotal == AreaDailyTotalConsumptions(1)

StatisticsUserDailyTotal == UserDailyTotalConsumptions(1, QueryUserIds)

StatisticsReturn == Return(1)

NextStatistics ==
    \/ StatisticsDailyTotal
    \/ StatisticsDailyPercentiles
    \/ StatisticsAreaDailyTotal
    \/ StatisticsUserDailyTotal
    \/ StatisticsReturn

SpecStatistics == InitStatistics /\ [][NextStatistics]_vars

(***************************************************************************)
(* Claims about the aggregation queries, checked under SpecStatistics.     *)
(***************************************************************************)
\* caller p holds the rows of the query op
Answered(p, op) == call[p].pc = "done" /\ call[p].op = op

\* the calendar date of a reading
DateOf(k) == TruncDate(k[2])

\* C11: for a non-empty Consumption table the rows returned by
\* get_daily_total_consumptions_for_all have strictly ascending dates (one
\* row per date), their dates are exactly the dates that have a reading, each
\* daily_total is the sum of the readings of its date, and the daily_totals
\* add up to the sum of all readings.
C11_DailyTotalsForAll ==
    \A p \in Procs :
        (Answered(p, "get_daily_total_consumptions_for_all")
            /\ ConsumptionObjects(consumption_table) # {}) =>
            LET rows == call[p].rows
                objs == ConsumptionObjects(consumption_table)
            IN  /\ rows # <<>>
                /\ \A i, j \in DOMAIN rows : i < j => rows[i].date < rows[j].date
                /\ {rows[i].date : i \in DOMAIN rows} = {DateOf(k) : k \in objs}
                /\ \A i \in DOMAIN rows :
                      rows[i].daily_total =
                          Sum(consumption_table, {k \in objs : DateOf(k) = rows[i].date})
                /\ SumSeq([i \in DOMAIN rows |-> rows[i].daily_total]) =
                      Sum(consumption_table, objs)

\* readings of two users in both slots of one date and a reading on the next
\* date, answered with two rows
C11_Witness ==
    /\ Answered(1, "get_daily_total_consumptions_for_all")
    /\ Len(call[1].rows) = 2
    /\ \E k1, k2, k3 \in ConsumptionObjects(consumption_table) :
          /\ k1[1] # k2[1]
          /\ k1[2] # k2[2]
          /\ DateOf(k1) = DateOf(k2)
          /\ DateOf(k3) # DateOf(k1)

\* the per-user daily totals of date d: each user's readings of d summed,
\* one row per user that has a reading on d
UserTotalsOn(d) ==
    LET objs == ConsumptionObjects(consumption_table)
    IN  {[user_id |-> u,
          daily_total |-> Sum(consumption_table, {k \in objs : k[1] = u /\ DateOf(k) = d})] :
            u \in {k[1] : k \in {k \in objs : DateOf(k) = d}}}

\* 100 times the reference percentile of the sorted values v at rank
\* r = percent / 100 * (n - 1): v[floor(r)] + (r - floor(r)) * (v[ceil(r)] - v[floor(r)])
Reference100(percent, v) ==
    LET r100 == percent * (Len(v) - 1)
        floor == r100 \div 100
        ceil == (r100 + 99) \div 100
    IN  100 * v[floor + 1] + (r100 - 100 * floor) * (v[ceil + 1] - v[floor + 1])

\* C12: every row of get_daily_percentiles_for_all holds the 10th, 50th and
\* 90th percentile of the per-user daily totals of its date (each user's
\* readings of the date summed first), interpolated linearly at rank
\* p/100 * (n-1); per-user totals 10, 20, 30, 40 give p10 = 13, p50 = 25 and
\* p90 = 37.
C12_PercentilesOverUserTotals ==
    \A p \in Procs :
        Answered(p, "get_daily_percentiles_for_all") =>
            \A i \in DOMAIN call[p].rows :
                LET row == call[p].rows[i]
                    v == OrderByDailyTotal(UserTotalsOn(row.date))
                IN  /\ 100 * row.p10 = Reference100(10, v)
                    /\ 100 * row.p50 = Reference100(50, v)
                    /\ 100 * row.p90 = Reference100(90, v)
                    /\ v = <<10, 20, 30, 40>> =>
                          (row.p10 = 13 /\ row.p50 = 25 /\ row.p90 = 37)

\* the percentiles of a date on which the four users total 10, 20, 30 and 40
C12_Witness ==
    /\ Answered(1, "get_daily_percentiles_for_all")
    /\ \E i \in DOMAIN call[1].rows :
          /\ OrderByDailyTotal(UserTotalsOn(call[1].rows[i].date)) = <<10, 20, 30, 40>>
          /\ call[1].rows[i].p10 = 13
          /\ call[1].rows[i].p50 = 25
          /\ call[1].rows[i].p90 = 37

\* C13: in every row of get_daily_percentiles_for_all p10 <= p50 <= p90; on
\* a date with readings of exactly one user the three equal that user's daily
\* total; the rows' dates are the dates with a reading, so a date on which no
\* user has a reading has no row.
C13_PercentilesOrdered ==
    \A p \in Procs :
        Answered(p, "get_daily_percentiles_for_all") =>
            LET rows == call[p].rows
                objs == ConsumptionObjects(consumption_table)
            IN  /\ \A i \in DOMAIN rows :
                      /\ rows[i].p10 <= rows[i].p50
                      /\ rows[i].p50 <= rows[i].p90
                      /\ \A t \in UserTotalsOn(rows[i].date) :
                            UserTotalsOn(rows[i].date) = {t} =>
                               /\ rows[i].p10 = t.daily_total
                               /\ rows[i].p50 = t.daily_total
                               /\ rows[i].p90 = t.daily_total
                /\ \A d \in {TruncDate(dt) : dt \in StatDatetimes} :
                      (\E i \in DOMAIN rows : rows[i].date = d) <=>
                          (\E k \in objs : DateOf(k) = d)

\* a date with two readings of one user only, answered by the user's total
\* three times, and no row for the other date, which has no reading
C13_Witness ==
    /\ Answered(1, "get_daily_percentiles_for_all")
    /\ Len(call[1].rows) = 1
    /\ \E t \in UserTotalsOn(call[1].rows[1].date) :
          /\ UserTotalsOn(call[1].rows[1].date) = {t}
          /\ t.daily_total = 30
          /\ call[1].rows[1].p10 = 30
          /\ call[1].rows[1].p90 = 30

\* a date with several users' totals, answered by three different percentiles
C13_WitnessSpread ==
    /\ Answered(1, "get_daily_percentiles_for_all")
    /\ \E i \in DOMAIN call[1].rows :
          /\ Cardinality(UserTotalsOn(call[1].rows[i].date)) = 3
          /\ call[1].rows[i].p10 < call[1].rows[i].p50
          /\ call[1].rows[i].p50 < call[1].rows[i].p90

\* the place of an area in the collation order
AreaRank(area) == CHOOSE i \in DOMAIN AreaCollation : AreaCollation[i] = area

\* the sum of the daily_total of the rows of date d
TotalOfDate(rows, d) ==
    SumSeq([i \in DOMAIN rows |-> IF rows[i].date = d THEN rows[i].daily_total ELSE 0])

\* C14: get_area_daily_total_consumptions returns one row for each area and
\* date with a reading of a user of the area, its daily_total being the sum
\* of the readings of the date of the users of the area; the area rows of a
\* date add up to that date's daily_total of
\* get_daily_total_consumptions_for_all; the rows ascend by (area, date).
C14_AreaDailyTotals ==
    \A p \in Procs :
        Answered(p, "get_area_daily_total_consumptions") =>
            LET rows == call[p].rows
                objs == ConsumptionObjects(consumption_table)
                all == get_daily_total_consumptions_for_all(Database)
            IN  /\ {<<rows[i].area, rows[i].date>> : i \in DOMAIN rows} =
                      {<<user_table[k[1]].area, DateOf(k)>> : k \in objs}
                /\ \A i \in DOMAIN rows :
                      rows[i].daily_total =
                          Sum(consumption_table,
                              {k \in objs : /\ DateOf(k) = rows[i].date
                                            /\ user_table[k[1]].area = rows[i].area})
                /\ \A j \in DOMAIN all :
                      TotalOfDate(rows, all[j].date) = all[j].daily_total
                /\ \A i, j \in DOMAIN rows :
                      i < j => \/ AreaRank(rows[i].area) < AreaRank(rows[j].area)
                               \/ /\ rows[i].area = rows[j].area
                                  /\ rows[i].date < rows[j].date

\* both areas and both dates have readings, two users of one area on one date
C14_Witness ==
    /\ Answered(1, "get_area_daily_total_consumptions")
    /\ Len(call[1].rows) = 3
    /\ call[1].rows[1].area # call[1].rows[3].area
    /\ \E k1, k2 \in ConsumptionObjects(consumption_table) :
          /\ k1[1] # k2[1]
          /\ user_table[k1[1]].area = user_table[k2[1]].area
          /\ DateOf(k1) = DateOf(k2)

\* C15: get_user_daily_total_consumptions(user_id) ends in a not-found error
\* when no user has that id, returns no rows and no error when the user exists
\* without readings, and leaves the User and Consumption tables as they were.
C15_UnknownUserNotFound ==
    [][\A p \in Procs :
          (call'[p] # call[p] /\ call'[p].op = "get_user_daily_total_consumptions") =>
              /\ call'[p].src.user_id \notin DOMAIN user_table =>
                    call'[p].result = "NotFound"
              /\ (/\ call'[p].src.user_id \in DOMAIN user_table
                  /\ \A k \in ConsumptionObjects(consumption_table) :
                        k[1] # call'[p].src.user_id) =>
                    (call'[p].result = "ok" /\ call'[p].rows = <<>>)
              /\ TablesUnchanged]_vars

(***************************************************************************)
(* Claim about the transaction scope, checked under SpecInterleaved.       *)
(***************************************************************************)
\* the lookup of existing rows and the partition of the call c, done on the
\* database db
Reconciled(c, db) ==
    IF c.op = "user" THEN UserPrepare(c.src, c.batch_size, db)
    ELSE ConsumptionPrepare(c.src, c.batch_size, db)

\* C16: the lookup of existing rows and the partition into creates and
\* updates are done in the transaction that writes: the lists a call takes
\* into its transaction are the partition against the tables as they are when
\* that transaction begins, also with another import call running beside it.
C16_PartitionInsideTransaction ==
    [][\A p \in Procs :
          (call[p].pc = "ready" /\ call'[p].pc = "done") =>
              /\ call[p].to_create = Reconciled(call[p], Database).to_create
              /\ call[p].to_update = Reconciled(call[p], Database).to_update]_vars

====
